---------------------------- MODULE Spec2Model ----------------------------
(***************************************************************************)
(* A model of altair/utils/data.py: the type guard, the row limiter, the   *)
(* sampler, the normalizer, the JSON/CSV serializers, the file emitters    *)
(* and the consolidate-datasets flag of the data transformer registry.     *)
(*                                                                         *)
(* A data object is described by the four capabilities the code probes     *)
(* (isinstance dict / DataFrame, hasattr __geo_interface__ /               *)
(* __dataframe__) and by the content each capability exposes.  Python's    *)
(* None is the empty tuple <<>>, an optional integer k is <<k>>, and an    *)
(* optional float is <<num, den>>, the exact binary fraction num/den.      *)
(***************************************************************************)
EXTENDS Integers, Sequences, FiniteSets, TLC

VARIABLES
    input,                 \* the data object the caller passes
    pyarrow,               \* the installed pyarrow: "missing", "old" or "ok"
    call,                  \* the last operation called, with its arguments
    result,                \* what that call returned or raised
    files,                 \* the file system: filename -> contents
    _global_settings,      \* DataTransformerRegistry._global_settings
    active                 \* the name of the registry's active transformer

vars == <<input, pyarrow, call, result, files, _global_settings, active>>

---------------------------------------------------------------------------
(* Bounds of the model. *)

\* The largest number of rows, records or features of a data object.
MaxLen == 2

\* The largest number of files the emitters leave in the working directory.
MaxFiles == 2

---------------------------------------------------------------------------
(* The universe of inputs. *)

None == <<>>

Some(x) == <<x>>

\* The cell values of the single column "a".
Cells == {1, 2}

RECURSIVE SeqsUpTo(_, _)
SeqsUpTo(S, k) ==
    IF k = 0 THEN {<<>>}
    ELSE LET shorter == SeqsUpTo(S, k - 1)
         IN  shorter \cup {Append(s, x) : s \in shorter, x \in S}

\* Runtime types of values that have none of the four capabilities.
OtherTypes == {"int", "list"}

GeoTypes == {"FeatureCollection", "Feature", "Point"}

\* The runtime type of an object with at least one capability.
ClassOf(df, dict, geo, dfi) ==
    (IF geo THEN "Geo" ELSE "") \o
    (IF dfi THEN "Interchange" ELSE "") \o
    (IF df THEN "DataFrame" ELSE "") \o
    (IF dict THEN "dict" ELSE "") \o
    (IF ~df /\ ~dict THEN "Object" ELSE "")

Recognized(d) == d.isDataFrame \/ d.isDict \/ d.hasGeo \/ d.hasDataframe

\* The data objects whose content has at most k rows, records or features.
\*   recs      the rows of a DataFrame, data["values"] of a dict, or the rows
\*             the interchange protocol hands over
\*   hasValues "values" in data
\*   geoType   data.__geo_interface__["type"]
\*   nFeatures len(data.__geo_interface__["features"])
DataUpTo(k) ==
    { d \in [isDataFrame : BOOLEAN, isDict : BOOLEAN, hasGeo : BOOLEAN,
             hasDataframe : BOOLEAN, typeName : OtherTypes \cup
                 {ClassOf(a, b, c, e) : a, b, c, e \in BOOLEAN},
             hasValues : BOOLEAN, recs : SeqsUpTo(Cells, k),
             geoType : GeoTypes \cup {"-"}, nFeatures : 0..k] :
        /\ IF Recognized(d)
           THEN d.typeName = ClassOf(d.isDataFrame, d.isDict, d.hasGeo, d.hasDataframe)
           ELSE d.typeName \in OtherTypes
        /\ d.hasValues => d.isDict
        /\ d.recs # <<>> =>
               d.isDataFrame \/ (d.isDict /\ d.hasValues) \/ d.hasDataframe
        /\ (d.geoType = "-") <=> ~d.hasGeo
        /\ d.nFeatures > 0 => d.geoType = "FeatureCollection" }

Data == DataUpTo(MaxLen)

\* max_rows: None or an integer.
MaxRowsArgs == {None} \cup {Some(m) : m \in 0..(MaxLen + 1)}

---------------------------------------------------------------------------
(* Results. *)

Return(v) == [tag |-> "return", value |-> v]

Raise(exc, msg) == [tag |-> "raise", exc |-> exc, msg |-> msg]

NoResult == [tag |-> "none"]

NoCall == [op |-> "none"]

\* The object passed in, itself.
Object(d) == [tag |-> "object", obj |-> d]

PyNone == [tag |-> "None"]

\* A pyarrow Table holding the given rows.
PaTable(rows) == [tag |-> "pyarrow.Table", rows |-> rows]

---------------------------------------------------------------------------
(* check_data_type and import_pyarrow_interchange. *)

\* Mutant of check_data_type: a list passes the isinstance test as well.
check_data_type_accepts_list(data) ==
    IF ~(data.isDict \/ data.isDataFrame \/ data.typeName = "list")
       /\ ~(data.hasGeo \/ data.hasDataframe)
    THEN Raise("TypeError",
               "Expected dict, DataFrame or a __geo_interface__ attribute, got: "
                   \o "<class '" \o data.typeName \o "'>")
    ELSE NoResult

check_data_type(data) ==
    IF ~(data.isDict \/ data.isDataFrame) /\ ~(data.hasGeo \/ data.hasDataframe)
    THEN Raise("TypeError",
               "Expected dict, DataFrame or a __geo_interface__ attribute, got: "
                   \o "<class '" \o data.typeName \o "'>")
    ELSE NoResult

import_pyarrow_interchange ==
    CASE pyarrow = "missing" ->
             Raise("ImportError",
                   "Usage of the DataFrame Interchange Protocol requires the package"
                       \o " 'pyarrow', but it is not installed.")
      [] pyarrow = "old" ->
             Raise("ImportError",
                   "The installed version of 'pyarrow' does not meet the minimum requirement of version 11.0.0. "
                       \o "Please update 'pyarrow' to use the DataFrame Interchange Protocol.")
      [] pyarrow = "ok" -> NoResult

\* pi.from_dataframe(data): the rows of the interchange object as a Table.
from_dataframe(data) == PaTable(data.recs)

---------------------------------------------------------------------------
(* limit_rows *)

raise_max_rows_error(max_rows) ==
    Raise("MaxRowsError",
          "The number of rows in your dataset is greater "
              \o "than the maximum allowed ("
              \o (IF max_rows = None THEN "None" ELSE ToString(max_rows[1]))
              \o ").\n\n"
              \o "Try enabling the VegaFusion data transformer which "
              \o "raises this limit by pre-evaluating data\n"
              \o "transformations in Python.\n"
              \o "    >> import altair as alt\n"
              \o "    >> alt.data_transformers.enable(\"vegafusion\")\n\n"
              \o "Or, see https://altair-viz.github.io/user_guide/large_datasets.html "
              \o "for additional information\n"
              \o "on how to plot large datasets.")

\* len(data.__geo_interface__) of a single feature or geometry: the number
\* of keys of the mapping.
GeoInterfaceLen(data) ==
    CASE data.geoType = "Feature" -> 3  \* type, geometry, properties
      [] data.geoType = "Point" -> 2    \* type, coordinates

\* Mutants of exceeds: the comparison is >=, and None counts as a ceiling of 0.
exceeds_inclusive(length, max_rows) == max_rows # None /\ length >= max_rows[1]

exceeds_none_is_zero(length, max_rows) ==
    length > (IF max_rows = None THEN 0 ELSE max_rows[1])

\* max_rows is not None and len(values) > max_rows
exceeds(length, max_rows) == max_rows # None /\ length > max_rows[1]

\* Mutant of limit_rows: the DataFrame test comes before the geo test.
limit_rows_tabular_first(data, max_rows) ==
    LET checked(len_values) ==
            IF exceeds(len_values, max_rows)
            THEN raise_max_rows_error(max_rows)
            ELSE Return(Object(data))
    IN  IF check_data_type(data) # NoResult THEN check_data_type(data)
        ELSE IF data.isDataFrame
        THEN checked(Len(data.recs))
        ELSE IF data.hasGeo
        THEN IF data.geoType = "FeatureCollection"
             THEN checked(data.nFeatures)
             ELSE checked(GeoInterfaceLen(data))
        ELSE IF data.isDict
        THEN IF data.hasValues
             THEN checked(Len(data.recs))
             ELSE Return(Object(data))
        ELSE \* hasattr(data, "__dataframe__")
             IF import_pyarrow_interchange # NoResult THEN import_pyarrow_interchange
             ELSE LET pa_table == from_dataframe(data)
                  IN  IF exceeds(Len(pa_table.rows), max_rows)
                      THEN raise_max_rows_error(max_rows)
                      ELSE Return(pa_table)

\* `checked` is the tail of the function: the size check on `values`, then
\* `return data`.
limit_rows(data, max_rows) ==
    LET checked(len_values) ==
            IF exceeds(len_values, max_rows)
            THEN raise_max_rows_error(max_rows)
            ELSE Return(Object(data))
    IN  IF check_data_type(data) # NoResult THEN check_data_type(data)
        ELSE IF data.hasGeo
        THEN IF data.geoType = "FeatureCollection"
             THEN checked(data.nFeatures)
             ELSE checked(GeoInterfaceLen(data))
        ELSE IF data.isDataFrame
        THEN checked(Len(data.recs))
        ELSE IF data.isDict
        THEN IF data.hasValues
             THEN checked(Len(data.recs))
             ELSE Return(Object(data))
        ELSE \* hasattr(data, "__dataframe__")
             IF import_pyarrow_interchange # NoResult THEN import_pyarrow_interchange
             ELSE LET pa_table == from_dataframe(data)
                  IN  IF exceeds(Len(pa_table.rows), max_rows)
                      THEN raise_max_rows_error(max_rows)
                      ELSE Return(pa_table)

LimitRows(data, max_rows) ==
    /\ call' = [op |-> "limit_rows", data |-> data, max_rows |-> max_rows]
    /\ result' = limit_rows(data, max_rows)
    /\ input' = data
    /\ UNCHANGED <<pyarrow, files, _global_settings, active>>

---------------------------------------------------------------------------
(* sample *)

\* n: None or an integer; frac: None or the float num/den.
NArgs == {None} \cup {Some(n) : n \in 0..(MaxLen + 1)}

FracArgs == {None, <<0, 1>>, <<1, 2>>, <<1, 1>>}

\* int(frac * length) for a frac >= 0.
IntOfProduct(frac, length) == (frac[1] * length) \div frac[2]

\* The ways to draw k distinct positions of 1..length, in drawing order.
Draws(length, k) ==
    { p \in [1..k -> 1..length] : \A i, j \in 1..k : i # j => p[i] # p[j] }

\* random.sample(population, k): the lists it can return, or its ValueError
\* when k is negative or larger than the population.
random_sample(population, k) ==
    IF k < 0 \/ k > Len(population)
    THEN {Raise("ValueError", "Sample larger than population or is negative")}
    ELSE {Return([i \in 1..k |-> population[p[i]]]) : p \in Draws(Len(population), k)}

\* A new dict {"values": values} and a new DataFrame of the given rows.
ValuesDict(values) == [tag |-> "dict", values |-> values]

Records(rows) == [kind |-> "records", rows |-> rows]

DataFrame(rows) == [tag |-> "DataFrame", rows |-> rows]

\* pandas' DataFrame.sample(n=n, frac=frac), without replacement: n and frac
\* exclude each other, n defaults to 1, and frac gives round(frac * len).
RoundOfProduct(frac, length) ==
    LET twice == (2 * frac[1] * length) \div frac[2]
        exact == (2 * frac[1] * length) % frac[2] = 0
        down  == twice \div 2
    IN  IF twice % 2 = 0 THEN down
        ELSE IF exact /\ down % 2 = 0 THEN down   \* a tie goes to the even
        ELSE down + 1

DataFrame_sample(rows, n, frac) ==
    IF n # None /\ frac # None
    THEN {Raise("ValueError", "Please enter a value for frac OR n, not both")}
    ELSE LET size == IF n # None THEN n[1]
                     ELSE IF frac # None THEN RoundOfProduct(frac, Len(rows))
                     ELSE 1
         IN  IF size < 0 \/ size > Len(rows)
             THEN {Raise("ValueError",
                         "Cannot take a larger sample than population when 'replace=False'")}
             ELSE {Return(DataFrame([i \in 1..size |-> rows[p[i]]])) :
                       p \in Draws(Len(rows), size)}

\* `if not n`: None and 0 are both falsy.
Falsy(n) == n = None \/ n[1] = 0

\* The set of outcomes of sample(data, n, frac).
sample(data, n, frac) ==
    IF check_data_type(data) # NoResult THEN {check_data_type(data)}
    ELSE IF data.isDataFrame
    THEN DataFrame_sample(data.recs, n, frac)
    ELSE IF data.isDict
    THEN IF data.hasValues
         THEN IF Falsy(n) /\ frac = None
              THEN {Raise("ValueError",
                          "frac cannot be None if n is None and data is a dictionary")}
              ELSE LET size == IF Falsy(n) THEN IntOfProduct(frac, Len(data.recs))
                               ELSE n[1]
                       drawn == random_sample(data.recs, size)
                   IN  { IF r.tag = "return"
                         THEN Return(ValuesDict(Records(r.value)))
                         ELSE r : r \in drawn }
         ELSE {Return(PyNone)}
    ELSE IF data.hasDataframe
    THEN IF import_pyarrow_interchange # NoResult THEN {import_pyarrow_interchange}
         ELSE LET pa_table == from_dataframe(data)
              IN  IF Falsy(n) /\ frac = None
                  THEN {Raise("ValueError",
                              "frac cannot be None if n is None with this data input type")}
                  ELSE LET size == IF Falsy(n)
                                   THEN IntOfProduct(frac, Len(pa_table.rows))
                                   ELSE n[1]
                           \* random.sample(range(len), n), then take(indices)
                           drawn == random_sample(pa_table.rows, size)
                       IN  { IF r.tag = "return" THEN Return(PaTable(r.value))
                             ELSE r : r \in drawn }
    ELSE {Return(PyNone)}

Sample(data, n, frac) ==
    /\ call' = [op |-> "sample", data |-> data, n |-> n, frac |-> frac]
    /\ result' \in sample(data, n, frac)
    /\ input' = data
    /\ UNCHANGED <<pyarrow, files, _global_settings, active>>

---------------------------------------------------------------------------
(* to_values and the serializers. *)

\* data.__geo_interface__
GeoInterface(data) ==
    [kind |-> "geo", type |-> data.geoType, nFeatures |-> data.nFeatures]

\* The sanitizers of altair.utils.core normalise NaN, infinities and dates.
\* Every cell of the modelled universe is a finite integer and the geo
\* payloads hold none of these, so each sanitizer hands back what it got.
sanitize_dataframe(rows) == rows

sanitize_arrow_table(pa_table) == pa_table

sanitize_geo_interface(geo) == geo

\* Mutant of to_values: a dict is handed back without looking for "values".
to_values_unchecked_dict(data) ==
    IF check_data_type(data) # NoResult THEN check_data_type(data)
    ELSE IF data.hasGeo
    THEN Return(ValuesDict(sanitize_geo_interface(GeoInterface(data))))
    ELSE IF data.isDataFrame
    THEN Return(ValuesDict(Records(sanitize_dataframe(data.recs))))
    ELSE IF data.isDict
    THEN Return(Object(data))
    ELSE IF data.hasDataframe
    THEN IF import_pyarrow_interchange # NoResult THEN import_pyarrow_interchange
         ELSE Return(ValuesDict(Records(
                  sanitize_arrow_table(from_dataframe(data)).rows)))
    ELSE Raise("ValueError", "Unrecognized data type: <class '" \o data.typeName \o "'>")

to_values(data) ==
    IF check_data_type(data) # NoResult THEN check_data_type(data)
    ELSE IF data.hasGeo
    THEN Return(ValuesDict(sanitize_geo_interface(GeoInterface(data))))
    ELSE IF data.isDataFrame
    THEN Return(ValuesDict(Records(sanitize_dataframe(data.recs))))
    ELSE IF data.isDict
    THEN IF ~data.hasValues
         THEN Raise("KeyError", "values expected in data dict, but not present.")
         ELSE Return(Object(data))
    ELSE IF data.hasDataframe
    THEN IF import_pyarrow_interchange # NoResult THEN import_pyarrow_interchange
         ELSE Return(ValuesDict(Records(
                  sanitize_arrow_table(from_dataframe(data)).rows)))
    ELSE Raise("ValueError", "Unrecognized data type: <class '" \o data.typeName \o "'>")

ToValues(data) ==
    /\ call' = [op |-> "to_values", data |-> data]
    /\ result' = to_values(data)
    /\ input' = data
    /\ UNCHANGED <<pyarrow, files, _global_settings, active>>

RECURSIVE Join(_, _)
\* sep.join(parts)
Join(sep, parts) ==
    IF parts = <<>> THEN ""
    ELSE IF Len(parts) = 1 THEN parts[1]
    ELSE parts[1] \o sep \o Join(sep, Tail(parts))

\* json.dumps of a list of records {"a": cell}, with json's default separators.
json_dumps(rows) ==
    "[" \o Join(", ", [i \in 1..Len(rows) |->
                          "{\"a\": " \o ToString(rows[i]) \o "}"]) \o "]"

\* json.dumps of a sanitized geo interface.
json_dumps_geo(geo) ==
    LET feature == "{\"type\": \"Feature\", \"geometry\": null, \"properties\": {}}"
    IN  CASE geo.type = "FeatureCollection" ->
                 "{\"type\": \"FeatureCollection\", \"features\": ["
                     \o Join(", ", [i \in 1..geo.nFeatures |-> feature]) \o "]}"
          [] geo.type = "Feature" -> feature
          [] geo.type = "Point" -> "{\"type\": \"Point\", \"coordinates\": [0, 0]}"

\* DataFrame.to_json(orient="records"): pandas writes no spaces.
DataFrame_to_json(rows) ==
    "[" \o Join(",", [i \in 1..Len(rows) |->
                         "{\"a\":" \o ToString(rows[i]) \o "}"]) \o "]"

\* DataFrame.to_csv(index=False): the header row, then one line per row.
DataFrame_to_csv(rows) ==
    "a\n" \o Join("", [i \in 1..Len(rows) |-> ToString(rows[i]) \o "\n"])

\* pd.DataFrame.from_dict(values): an empty list gives a frame with no column.
from_dict_to_csv(values) ==
    IF values = <<>> THEN "\n" ELSE DataFrame_to_csv(values)

\* pyarrow.csv.write_csv: the header is quoted.
write_csv(pa_table) ==
    "\"a\"\n" \o Join("", [i \in 1..Len(pa_table.rows) |->
                               ToString(pa_table.rows[i]) \o "\n"])

\* A str result.
Str(s) == [tag |-> "str", str |-> s]

_data_to_json_string(data) ==
    IF check_data_type(data) # NoResult THEN check_data_type(data)
    ELSE IF data.hasGeo
    THEN Return(Str(json_dumps_geo(sanitize_geo_interface(GeoInterface(data)))))
    ELSE IF data.isDataFrame
    THEN Return(Str(DataFrame_to_json(sanitize_dataframe(data.recs))))
    ELSE IF data.isDict
    THEN IF ~data.hasValues
         THEN Raise("KeyError", "values expected in data dict, but not present.")
         ELSE Return(Str(json_dumps(data.recs)))
    ELSE IF data.hasDataframe
    THEN IF import_pyarrow_interchange # NoResult THEN import_pyarrow_interchange
         ELSE Return(Str(json_dumps(from_dataframe(data).rows)))
    ELSE Raise("NotImplementedError",
               "to_json only works with data expressed as " \o "a DataFrame or as a dict")

\* Mutant of _data_to_csv_string: the DataFrame test comes before the geo test.
_data_to_csv_string_tabular_first(data) ==
    IF check_data_type(data) # NoResult THEN check_data_type(data)
    ELSE IF data.isDataFrame
    THEN Return(Str(DataFrame_to_csv(sanitize_dataframe(data.recs))))
    ELSE IF data.hasGeo
    THEN Raise("NotImplementedError",
               "to_csv does not work with data that "
                   \o "contains the __geo_interface__ attribute")
    ELSE IF data.isDict
    THEN IF ~data.hasValues
         THEN Raise("KeyError", "values expected in data dict, but not present")
         ELSE Return(Str(from_dict_to_csv(data.recs)))
    ELSE IF data.hasDataframe
    THEN IF import_pyarrow_interchange # NoResult THEN import_pyarrow_interchange
         ELSE Return(Str(write_csv(from_dataframe(data))))
    ELSE Raise("NotImplementedError",
               "to_csv only works with data expressed as " \o "a DataFrame or as a dict")

_data_to_csv_string(data) ==
    IF check_data_type(data) # NoResult THEN check_data_type(data)
    ELSE IF data.hasGeo
    THEN Raise("NotImplementedError",
               "to_csv does not work with data that "
                   \o "contains the __geo_interface__ attribute")
    ELSE IF data.isDataFrame
    THEN Return(Str(DataFrame_to_csv(sanitize_dataframe(data.recs))))
    ELSE IF data.isDict
    THEN IF ~data.hasValues
         THEN Raise("KeyError", "values expected in data dict, but not present")
         ELSE Return(Str(from_dict_to_csv(data.recs)))
    ELSE IF data.hasDataframe
    THEN IF import_pyarrow_interchange # NoResult THEN import_pyarrow_interchange
         ELSE Return(Str(write_csv(from_dataframe(data))))
    ELSE Raise("NotImplementedError",
               "to_csv only works with data expressed as " \o "a DataFrame or as a dict")

---------------------------------------------------------------------------
(* The hashing utility and the file emitters. *)

\* hashlib.md5(data_str.encode()).hexdigest(), tabulated for the strings the
\* serializers produce within the bounds.
md5_hexdigest(data_str) ==
    CASE data_str = "[]" ->
             "d751713988987e9331980363e24189ce"
      [] data_str = "a\n" ->
             "60b725f10c9c85c70d97880dfe8191b3"
      [] data_str = "\"a\"\n" ->
             "ff338a7c1899a53efa682a196526ba6b"
      [] data_str = "[{\"a\": 1}]" ->
             "4edb2f892780c4601d57f2ec0b89e97b"
      [] data_str = "[{\"a\":1}]" ->
             "ef48a65d3c4c61901a5691a5e7964e60"
      [] data_str = "a\n1\n" ->
             "34ff2335cbe2045ddc3b78993d1e971d"
      [] data_str = "\"a\"\n1\n" ->
             "499cb55b9eaa920948bd7b4763493f35"
      [] data_str = "[{\"a\": 2}]" ->
             "23cb5f584aebcc0aa83f40c849ee0d85"
      [] data_str = "[{\"a\":2}]" ->
             "362d02b89da6a8ef228368d51aae46f2"
      [] data_str = "a\n2\n" ->
             "40b4eef5f424007f780457841b918075"
      [] data_str = "\"a\"\n2\n" ->
             "2a3e1176b3c7cf495ea6205ce83a685d"
      [] data_str = "[{\"a\": 1}, {\"a\": 1}]" ->
             "80c0422423fdba71c57a63e01863ddb7"
      [] data_str = "[{\"a\":1},{\"a\":1}]" ->
             "14160bbc3803bcb2f491a6f5e8c6da39"
      [] data_str = "a\n1\n1\n" ->
             "c9e54fa8f5679233f5b8a2ac0a269ac7"
      [] data_str = "\"a\"\n1\n1\n" ->
             "024fe1dfaff4b4d79300f09b70a4b3ce"
      [] data_str = "[{\"a\": 1}, {\"a\": 2}]" ->
             "2d6aaf4e781feab2d8fb4e240d4300f0"
      [] data_str = "[{\"a\":1},{\"a\":2}]" ->
             "f729e2fdf635f20ffa664fa04f80043e"
      [] data_str = "a\n1\n2\n" ->
             "cbbe57c40a3f974e0186abc0e8a3643f"
      [] data_str = "\"a\"\n1\n2\n" ->
             "200bbe5e3c0760ea14aad4ec8ae710b5"
      [] data_str = "[{\"a\": 2}, {\"a\": 1}]" ->
             "30c8b7a737f27fbdbfeddc313e4600b6"
      [] data_str = "[{\"a\":2},{\"a\":1}]" ->
             "367f718f3731410f66dd60f5997abb70"
      [] data_str = "a\n2\n1\n" ->
             "0f4c5085c1b5922fe8763a54b65413d6"
      [] data_str = "\"a\"\n2\n1\n" ->
             "714b099d948d080950ff45116bce4eae"
      [] data_str = "[{\"a\": 2}, {\"a\": 2}]" ->
             "7992cd3c683b9ccafabaa7b47cc29226"
      [] data_str = "[{\"a\":2},{\"a\":2}]" ->
             "41e2b3f30a1b7882298b473b74fdd01f"
      [] data_str = "a\n2\n2\n" ->
             "7bd623751bc8cc5ac24920d8a6c2c047"
      [] data_str = "\"a\"\n2\n2\n" ->
             "bb41dd53acf340c680d99289f1f4da7d"
      [] data_str = "[{\"a\": 1}, {\"a\": 1}, {\"a\": 1}]" ->
             "e7b9b41e1b1cc810a5419a9dc2fb2a60"
      [] data_str = "[{\"a\":1},{\"a\":1},{\"a\":1}]" ->
             "946c1130422e0fa361a4c4c72518c176"
      [] data_str = "a\n1\n1\n1\n" ->
             "ae67493f4b8e73b3858c4193f051900a"
      [] data_str = "\"a\"\n1\n1\n1\n" ->
             "11323640a5cf285feb4f6f7620b66180"
      [] data_str = "[{\"a\": 1}, {\"a\": 1}, {\"a\": 2}]" ->
             "644093cf965cf46aded8b622c5893f4d"
      [] data_str = "[{\"a\":1},{\"a\":1},{\"a\":2}]" ->
             "35721e67499b33d8738817706dfe8d12"
      [] data_str = "a\n1\n1\n2\n" ->
             "cbd4c5a1fedfb803e51142c2888e9690"
      [] data_str = "\"a\"\n1\n1\n2\n" ->
             "3dd642d63d1ac86ad37ad836d9fb8e0e"
      [] data_str = "[{\"a\": 1}, {\"a\": 2}, {\"a\": 1}]" ->
             "bb0b9d87a1b36d6bfc5441b9530a876c"
      [] data_str = "[{\"a\":1},{\"a\":2},{\"a\":1}]" ->
             "f6cd5bd75e310425e447dfdaf54cb0e3"
      [] data_str = "a\n1\n2\n1\n" ->
             "dec04dc43f00409df174b666eba57cda"
      [] data_str = "\"a\"\n1\n2\n1\n" ->
             "ed306dcd9f7cb8de69f912373bbd33cd"
      [] data_str = "[{\"a\": 1}, {\"a\": 2}, {\"a\": 2}]" ->
             "07af83a9a6ea41c3a18d31428b6ec4db"
      [] data_str = "[{\"a\":1},{\"a\":2},{\"a\":2}]" ->
             "004466c5b0c2814663c4ebce2701a1fd"
      [] data_str = "a\n1\n2\n2\n" ->
             "9e964924af1307a58f94950485d66091"
      [] data_str = "\"a\"\n1\n2\n2\n" ->
             "316167dcc6d68426221f086b3df39c5f"
      [] data_str = "[{\"a\": 2}, {\"a\": 1}, {\"a\": 1}]" ->
             "21add53802a20da947be7ebc21262511"
      [] data_str = "[{\"a\":2},{\"a\":1},{\"a\":1}]" ->
             "6e307f87114004f5911a91f6e58744dc"
      [] data_str = "a\n2\n1\n1\n" ->
             "3a5342feebd983496236af3c3d5ce35e"
      [] data_str = "\"a\"\n2\n1\n1\n" ->
             "26b5114518da756d27e620e5e3e2ce88"
      [] data_str = "[{\"a\": 2}, {\"a\": 1}, {\"a\": 2}]" ->
             "5e68c68da042facee6531853b718cbcb"
      [] data_str = "[{\"a\":2},{\"a\":1},{\"a\":2}]" ->
             "bf1a26e687b50c0098cf345c761e96cf"
      [] data_str = "a\n2\n1\n2\n" ->
             "388aa55263029e4722c6ce1d396e1c4e"
      [] data_str = "\"a\"\n2\n1\n2\n" ->
             "df34a8f5baba10576962ff1ce001709f"
      [] data_str = "[{\"a\": 2}, {\"a\": 2}, {\"a\": 1}]" ->
             "eb860f79c24b2f0e0628d8935f31c43a"
      [] data_str = "[{\"a\":2},{\"a\":2},{\"a\":1}]" ->
             "feda027d56a3286851274cf87d1a60f8"
      [] data_str = "a\n2\n2\n1\n" ->
             "2a53bb700667a1103046afcbee977a55"
      [] data_str = "\"a\"\n2\n2\n1\n" ->
             "bcd36155f14b4b2b79d36135015cdaec"
      [] data_str = "[{\"a\": 2}, {\"a\": 2}, {\"a\": 2}]" ->
             "11054e70677ad3002859858fb1bde872"
      [] data_str = "[{\"a\":2},{\"a\":2},{\"a\":2}]" ->
             "7cced6a60df7ce0957ed4ec3cde661ed"
      [] data_str = "a\n2\n2\n2\n" ->
             "03039ab01b853cc4d8998264c93e7bcb"
      [] data_str = "\"a\"\n2\n2\n2\n" ->
             "af5ba1dd0f1c67d28c3e78943847c26c"
      [] data_str = "\n" ->
             "68b329da9893e34099c7d8ad5cb9c940"
      [] data_str = "{\"type\": \"FeatureCollection\", \"features\": []}" ->
             "da404b6cce8e78b4146b483163ccc867"
      [] data_str = "{\"type\": \"FeatureCollection\", \"features\": [{\"type\": \"Feature\", \"geometry\": null, \"properties\": {}}]}" ->
             "0108cbb8b62c1e62abab854dee9e958c"
      [] data_str = "{\"type\": \"FeatureCollection\", \"features\": [{\"type\": \"Feature\", \"geometry\": null, \"properties\": {}}, {\"type\": \"Feature\", \"geometry\": null, \"properties\": {}}]}" ->
             "f18ff06df76a2c0d38949d45b5765542"
      [] data_str = "{\"type\": \"FeatureCollection\", \"features\": [{\"type\": \"Feature\", \"geometry\": null, \"properties\": {}}, {\"type\": \"Feature\", \"geometry\": null, \"properties\": {}}, {\"type\": \"Feature\", \"geometry\": null, \"properties\": {}}]}" ->
             "6b090b86a4908a3156c4ccc5aab19103"
      [] data_str = "{\"type\": \"Feature\", \"geometry\": null, \"properties\": {}}" ->
             "d78050a082c193d62691ea53bd979437"
      [] data_str = "{\"type\": \"Point\", \"coordinates\": [0, 0]}" ->
             "e898cfa3959981262f8d75c8fecdb4cb"

\* Mutant of _compute_data_hash: the digest is taken before the string is fed
\* in, so every content gets the digest of the empty string.
_compute_data_hash_of_nothing(data_str) == "d41d8cd98f00b204e9800998ecf8427e"

_compute_data_hash(data_str) == md5_hexdigest(data_str)

RECURSIVE format(_, _, _, _)
\* filename.format(prefix=..., hash=..., extension=...): the template is the
\* sequence of its literal pieces and replacement fields.
format(template, prefix, hash, extension) ==
    IF template = <<>> THEN ""
    ELSE (CASE Head(template) = "{prefix}" -> prefix
            [] Head(template) = "{hash}" -> hash
            [] Head(template) = "{extension}" -> extension
            [] OTHER -> Head(template))
         \o format(Tail(template), prefix, hash, extension)

DefaultFilename == <<"{prefix}", "-", "{hash}", ".", "{extension}">>

\* The url paths of the model that end with a separator.
EndsWithSep(path) == path \in {"data/"}

\* os.path.join(urlpath, filename) for a relative filename.
path_join(urlpath, filename) ==
    IF urlpath = "" \/ EndsWithSep(urlpath) THEN urlpath \o filename
    ELSE urlpath \o "/" \o filename

UrlDict(url, type) == [tag |-> "dict", url |-> url, format |-> [type |-> type]]

\* open(filename, "w") followed by f.write(content).
Write(fs, filename, content) ==
    [f \in DOMAIN fs \cup {filename} |-> IF f = filename THEN content ELSE fs[f]]

\* What an emitter does: its result and, unless it raised, the file it wrote.
Emitted(filename, content, url, type) ==
    [result |-> Return(UrlDict(url, type)), wrote |-> <<filename, content>>]

Failed(raised) == [result |-> raised, wrote |-> None]

to_json(data, args) ==
    LET data_json == _data_to_json_string(data)
    IN  IF data_json.tag = "raise" THEN Failed(data_json)
        ELSE LET data_hash == _compute_data_hash(data_json.value.str)
                 filename  == format(args.filename, args.prefix, data_hash,
                                     args.extension)
             IN  Emitted(filename, data_json.value.str,
                         path_join(args.urlpath, filename), "json")

to_csv(data, args) ==
    LET data_csv == _data_to_csv_string(data)
    IN  IF data_csv.tag = "raise" THEN Failed(data_csv)
        ELSE LET data_hash == _compute_data_hash(data_csv.value.str)
                 filename  == format(args.filename, args.prefix, data_hash,
                                     args.extension)
             IN  Emitted(filename, data_csv.value.str,
                         path_join(args.urlpath, filename), "csv")

\* The file system after an emitter has run.
AfterEmit(fs, done) ==
    IF done.wrote = None THEN fs ELSE Write(fs, done.wrote[1], done.wrote[2])

ToJson(data, args) ==
    /\ Cardinality(DOMAIN AfterEmit(files, to_json(data, args))) <= MaxFiles
    /\ call' = [op |-> "to_json", data |-> data, args |-> args]
    /\ result' = to_json(data, args).result
    /\ files' = AfterEmit(files, to_json(data, args))
    /\ input' = data
    /\ UNCHANGED <<pyarrow, _global_settings, active>>

ToCsv(data, args) ==
    /\ Cardinality(DOMAIN AfterEmit(files, to_csv(data, args))) <= MaxFiles
    /\ call' = [op |-> "to_csv", data |-> data, args |-> args]
    /\ result' = to_csv(data, args).result
    /\ files' = AfterEmit(files, to_csv(data, args))
    /\ input' = data
    /\ UNCHANGED <<pyarrow, _global_settings, active>>

\* The keyword arguments of the emitters: the defaults, and one call that
\* overrides each of them.
JsonDefaults ==
    [prefix |-> "altair-data", extension |-> "json",
     filename |-> DefaultFilename, urlpath |-> ""]

CsvDefaults ==
    [prefix |-> "altair-data", extension |-> "csv",
     filename |-> DefaultFilename, urlpath |-> ""]

\* The emitters' keyword arguments of a session: the defaults, and calls that
\* override the prefix, the filename template or the url path.
ArgsOf(defaults) ==
    { defaults,
      [defaults EXCEPT !.prefix = "d"],
      [defaults EXCEPT !.filename = <<"{prefix}", ".", "{extension}">>],
      [defaults EXCEPT !.urlpath = "data"] }

---------------------------------------------------------------------------
(* The data transformer registry. *)

\* The names registered at load time.
Names == {"default", "json", "csv"}

Bool(b) == [tag |-> "bool", bool |-> b]

\* The property consolidate_datasets: its getter and its setter, which
\* gives the settings after the write.
consolidate_datasets == _global_settings.consolidate_datasets

\* Mutant of the setter: the value is stored in a copy and lost.
consolidate_datasets_setter_on_copy(value) == _global_settings

consolidate_datasets_setter(value) ==
    [_global_settings EXCEPT !.consolidate_datasets = value]

GetConsolidateDatasets ==
    /\ call' = [op |-> "consolidate_datasets"]
    /\ result' = Return(Bool(consolidate_datasets))
    /\ UNCHANGED <<input, pyarrow, files, _global_settings, active>>

SetConsolidateDatasets(value) ==
    /\ call' = [op |-> "consolidate_datasets.setter", value |-> value]
    /\ result' = Return(PyNone)
    /\ _global_settings' = consolidate_datasets_setter(value)
    /\ UNCHANGED <<input, pyarrow, files, active>>

\* PluginRegistry.enable(name): the named entry becomes the active one.
Enable(name) ==
    /\ call' = [op |-> "enable", name |-> name]
    /\ result' = Return(PyNone)
    /\ active' = name
    /\ UNCHANGED <<input, pyarrow, files, _global_settings>>

---------------------------------------------------------------------------
(* Specifications. *)

\* The interchange branches are the only ones to import pyarrow, and they are
\* reached only by an object that is neither a DataFrame nor a dict.
ImportsPyarrow(data) == data.hasDataframe /\ ~data.isDataFrame /\ ~data.isDict

\* Spec: one data object, drawn from the whole universe, and the five
\* operations called on it in any order.
Init ==
    /\ input \in Data
    /\ pyarrow \in (IF ImportsPyarrow(input) THEN {"missing", "old", "ok"} ELSE {"ok"})
    /\ call = NoCall
    /\ result = NoResult
    /\ files = <<>>
    /\ _global_settings = [consolidate_datasets |-> TRUE]
    /\ active = "default"

Next ==
    \/ \E max_rows \in MaxRowsArgs : LimitRows(input, max_rows)
    \/ \E n \in NArgs, frac \in FracArgs : Sample(input, n, frac)
    \/ ToValues(input)
    \/ ToJson(input, JsonDefaults)
    \/ ToCsv(input, CsvDefaults)

Spec == Init /\ [][Next]_vars

\* SpecSession: a session that emits several datasets, with any keyword
\* arguments, and reads, writes and switches the registry in between.
Dataset(df, dict, dfi, rows) ==
    [isDataFrame |-> df, isDict |-> dict, hasGeo |-> FALSE, hasDataframe |-> dfi,
     typeName |-> ClassOf(df, dict, FALSE, dfi), hasValues |-> dict,
     recs |-> rows, geoType |-> "-", nFeatures |-> 0]

SessionData ==
    { Dataset(FALSE, TRUE, FALSE, <<1>>),      \* {"values": [{"a": 1}]}
      Dataset(FALSE, FALSE, TRUE, <<1>>),      \* the same rows, interchange
      Dataset(TRUE, FALSE, FALSE, <<1>>),      \* the same rows, DataFrame
      Dataset(FALSE, TRUE, FALSE, <<2>>) }     \* {"values": [{"a": 2}]}

InitSession ==
    /\ input \in SessionData
    /\ pyarrow = "ok"
    /\ call = NoCall
    /\ result = NoResult
    /\ files = <<>>
    /\ _global_settings = [consolidate_datasets |-> TRUE]
    /\ active = "default"

NextSession ==
    \/ \E data \in SessionData, args \in ArgsOf(JsonDefaults) : ToJson(data, args)
    \/ \E data \in SessionData, args \in ArgsOf(CsvDefaults) : ToCsv(data, args)
    \/ GetConsolidateDatasets
    \/ \E value \in BOOLEAN : SetConsolidateDatasets(value)
    \/ \E name \in Names : Enable(name)

SpecSession == InitSession /\ [][NextSession]_vars

---------------------------------------------------------------------------
(* The kinds an input resolves to, as the claims name them. *)

\* A DataFrame, a dict holding "values", a dict that does not, and an object
\* reached only through the interchange protocol; none exposes a geo interface.
TabularInput(d) == d.isDataFrame /\ ~d.hasGeo

ValuesMapping(d) == d.isDict /\ d.hasValues /\ ~d.isDataFrame /\ ~d.hasGeo

KeylessMapping(d) == d.isDict /\ ~d.hasValues /\ ~d.isDataFrame /\ ~d.hasGeo

InterchangeInput(d) ==
    d.hasDataframe /\ ~d.isDict /\ ~d.isDataFrame /\ ~d.hasGeo

IsRaise(r, exc) == r.tag = "raise" /\ r.exc = exc

\* The call was one of the five operations on data.
DataOps == {"limit_rows", "sample", "to_values", "to_json", "to_csv"}

---------------------------------------------------------------------------
(* C1 *)

\* What limit_rows owes for a row count and an integer ceiling, when it hands
\* back `kept` below the ceiling.
LimitOutcome(rows, max_rows, kept) ==
    IF rows <= max_rows[1] THEN Return(kept)
    ELSE raise_max_rows_error(max_rows)

\* C1, as stated: for every tabular, mapping-with-values or interchange input
\* and every integer max_rows, limit_rows returns the input itself when the row
\* count is <= max_rows and raises MaxRowsError carrying max_rows when it is
\* larger (here with a usable pyarrow).  The interchange branch refutes it.
C1_ReturnsInputUnchanged ==
    (/\ call.op = "limit_rows"
     /\ call.max_rows # None
     /\ pyarrow = "ok"
     /\ \/ TabularInput(call.data)
        \/ ValuesMapping(call.data)
        \/ InterchangeInput(call.data))
    => result = LimitOutcome(Len(call.data.recs), call.max_rows, Object(call.data))

\* C1, amended: for every tabular or mapping-with-values input and every
\* integer max_rows, limit_rows returns the input itself when the row count is
\* <= max_rows (equality included) and raises MaxRowsError carrying max_rows
\* when it is larger; for an interchange input it raises the same error above
\* the ceiling, but at or below it returns the converted pyarrow Table, not the
\* input, and raises ImportError when pyarrow is missing or too old.
C1_LimitRowsByKind ==
    (call.op = "limit_rows" /\ call.max_rows # None) =>
        LET d == call.data
        IN  /\ (TabularInput(d) \/ ValuesMapping(d)) =>
                   result = LimitOutcome(Len(d.recs), call.max_rows, Object(d))
            /\ InterchangeInput(d) =>
                   IF pyarrow = "ok"
                   THEN result = LimitOutcome(Len(d.recs), call.max_rows,
                                              PaTable(d.recs))
                   ELSE IsRaise(result, "ImportError")

\* An interchange input whose row count equals the ceiling came back as a Table.
C1_Witness ==
    /\ call.op = "limit_rows"
    /\ InterchangeInput(call.data)
    /\ call.max_rows = Some(Len(call.data.recs))
    /\ Len(call.data.recs) > 0
    /\ result = Return(PaTable(call.data.recs))

---------------------------------------------------------------------------
(* C2 *)

\* C2, as stated: with max_rows = None limit_rows returns the input itself for
\* every accepted input (here with a usable pyarrow).  The interchange branch
\* refutes it.
C2_NoneReturnsInput ==
    (/\ call.op = "limit_rows"
     /\ call.max_rows = None
     /\ pyarrow = "ok"
     /\ Recognized(call.data))
    => result = Return(Object(call.data))

\* C2, amended: with max_rows = None limit_rows never raises MaxRowsError,
\* whatever the shape and the row count; it returns the input itself, except
\* for an interchange input, for which it returns the converted pyarrow Table
\* (or raises ImportError when pyarrow is missing or too old).  Under an
\* integer ceiling a FeatureCollection fails exactly when its number of
\* features exceeds the ceiling.
C2_NoneDisablesCheck ==
    /\ (call.op = "limit_rows" /\ call.max_rows = None /\ Recognized(call.data)) =>
           /\ ~IsRaise(result, "MaxRowsError")
           /\ IF InterchangeInput(call.data)
              THEN IF pyarrow = "ok"
                   THEN result = Return(PaTable(call.data.recs))
                   ELSE IsRaise(result, "ImportError")
              ELSE result = Return(Object(call.data))
    /\ (/\ call.op = "limit_rows"
        /\ call.max_rows # None
        /\ call.data.hasGeo
        /\ call.data.geoType = "FeatureCollection") =>
           result = LimitOutcome(call.data.nFeatures, call.max_rows,
                                 Object(call.data))

\* A FeatureCollection with as many features as the model allows passed
\* unchanged under max_rows = None.
C2_Witness ==
    /\ call.op = "limit_rows"
    /\ call.max_rows = None
    /\ call.data.hasGeo
    /\ call.data.geoType = "FeatureCollection"
    /\ call.data.nFeatures = MaxLen
    /\ result = Return(Object(call.data))

---------------------------------------------------------------------------
(* C3 *)

\* What a call on a mapping without "values" does.
C3_Step ==
    KeylessMapping(call'.data) =>
        /\ call'.op = "limit_rows" =>
               result' = Return(Object(call'.data)) /\ files' = files
        /\ call'.op \in {"to_values", "to_json", "to_csv"} =>
               IsRaise(result', "KeyError") /\ files' = files

\* C3: a mapping without "values" is handed back unchanged by limit_rows for
\* every ceiling, integer or None; to_values, to_json and to_csv raise KeyError
\* for it, return nothing and write no file.
C3_KeylessMapping == [][call'.op \in DataOps => C3_Step]_vars

\* to_csv met a mapping without "values" and raised KeyError.
C3_Witness ==
    /\ call.op = "to_csv"
    /\ KeylessMapping(call.data)
    /\ IsRaise(result, "KeyError")

---------------------------------------------------------------------------
(* C4 *)

\* The TypeError that names the runtime type of the value.
TypeErrorFor(d) ==
    Raise("TypeError",
          "Expected dict, DataFrame or a __geo_interface__ attribute, got: <class '"
              \o d.typeName \o "'>")

\* What the type guard makes of a call.
C4_Step ==
    IF Recognized(call'.data)
    THEN ~IsRaise(result', "TypeError")
    ELSE result' = TypeErrorFor(call'.data) /\ files' = files

\* C4: a value with none of the four capabilities gets the same TypeError,
\* naming its runtime type, from each of the five operations, which then do
\* nothing else (no file is written); a value with one of the capabilities
\* never gets a TypeError.
C4_TypeGuard == [][call'.op \in DataOps => C4_Step]_vars

\* to_json met an int and raised the TypeError; nothing is on disk.
C4_Witness ==
    /\ call.op = "to_json"
    /\ call.data.typeName = "int"
    /\ result = TypeErrorFor(call.data)
    /\ files = <<>>

---------------------------------------------------------------------------
(* C7 *)

\* What to_csv does with a geo-capable object.
C7_Step ==
    call'.data.hasGeo =>
        IsRaise(result', "NotImplementedError") /\ files' = files

\* C7: to_csv on an object that exposes __geo_interface__, whatever else it
\* is, raises NotImplementedError and leaves the file system as it was.
C7_CsvRejectsGeo == [][call'.op = "to_csv" => C7_Step]_vars

\* to_csv met an object that is both a DataFrame and geo-capable.
C7_Witness ==
    /\ call.op = "to_csv"
    /\ call.data.hasGeo
    /\ call.data.isDataFrame
    /\ Len(call.data.recs) > 0
    /\ IsRaise(result, "NotImplementedError")

---------------------------------------------------------------------------
(* C5 *)

\* The number of rows or records of a sample that was returned.
SizeOf(value) ==
    IF value.tag = "dict" THEN Len(value.values.rows) ELSE Len(value.rows)

Sampled(r, size) ==
    /\ r.tag = "return"
    /\ r.value.tag \in {"dict", "DataFrame", "pyarrow.Table"}
    /\ SizeOf(r.value) = size

\* C5, as stated: for a tabular, mapping-with-values or interchange input,
\* sample without n and without frac raises ValueError; without n it draws
\* floor(frac * total_rows) rows; with an integer n, 0 included, it draws n
\* rows whatever frac is (stated for n <= total_rows, which a draw without
\* replacement needs).  `if not n` refutes it for n = 0.
C5_SampleSize ==
    (/\ call.op = "sample"
     /\ pyarrow = "ok"
     /\ \/ TabularInput(call.data)
        \/ ValuesMapping(call.data)
        \/ InterchangeInput(call.data))
    => LET total == Len(call.data.recs)
       IN  /\ (call.n = None /\ call.frac = None) => IsRaise(result, "ValueError")
           /\ (call.n = None /\ call.frac # None) =>
                  Sampled(result, (call.frac[1] * total) \div call.frac[2])
           /\ (call.n # None /\ call.n[1] <= total) => Sampled(result, call.n[1])

---------------------------------------------------------------------------
(* C6 *)

\* C6, as stated: sampling a mapping-with-values of N records with n <= N
\* returns {"values": S} where S has n elements drawn from n distinct
\* positions of the original values, and the input is as it was.  n = 0
\* refutes it, through the `if not n` of C5.
C6_WithoutReplacement ==
    (/\ call.op = "sample"
     /\ ValuesMapping(call.data)
     /\ call.n # None
     /\ call.n[1] <= Len(call.data.recs))
    => /\ result.tag = "return"
       /\ result.value.tag = "dict"
       /\ LET S == result.value.values.rows
              values == call.data.recs
          IN  /\ Len(S) = call.n[1]
              /\ \E p \in Draws(Len(values), Len(S)) :
                     \A i \in 1..Len(S) : S[i] = values[p[i]]
       /\ input = call.data

---------------------------------------------------------------------------
(* C8 *)

Emitters == {"to_json", "to_csv"}

\* The string the serializer of the called emitter gives for its input.
SerializedBy(c) ==
    IF c.op = "to_json" THEN _data_to_json_string(c.data).value.str
    ELSE _data_to_csv_string(c.data).value.str

\* The template with exactly prefix, hash and extension substituted.
NameFor(args, content) ==
    format(args.filename, args.prefix, md5_hexdigest(content), args.extension)

\* After an emitter returned: the file named by the template, with the hash
\* of the serialized string in it, holds that string, and the dict returned is
\* {"url": join(urlpath, filename), "format": {"type": "json" | "csv"}}.
C8_LastEmission ==
    (call.op \in Emitters /\ result.tag = "return") =>
        LET content  == SerializedBy(call)
            filename == NameFor(call.args, content)
        IN  /\ filename \in DOMAIN files
            /\ files[filename] = content
            /\ result = Return(UrlDict(path_join(call.args.urlpath, filename),
                                       IF call.op = "to_json" THEN "json" ELSE "csv"))

\* Every file on disk either has a name without a hash (the template
\* "{prefix}.{extension}") or a name that holds the hash of what is in it.
C8_NamesHoldTheHash ==
    \A f \in DOMAIN files :
        \/ \E prefix \in {"altair-data", "d"}, extension \in {"json", "csv"} :
               f = prefix \o "." \o extension
        \/ \E prefix \in {"altair-data", "d"}, extension \in {"json", "csv"} :
               f = prefix \o "-" \o md5_hexdigest(files[f]) \o "." \o extension

\* Two emissions in a row by the same emitter, with the same keyword
\* arguments, of inputs that serialize to the same string: the second returns
\* what the first returned and leaves the file system as the first left it.
C8_Step ==
    (/\ call.op \in Emitters /\ result.tag = "return"
     /\ call'.op = call.op /\ result'.tag = "return"
     /\ call'.args = call.args
     /\ SerializedBy(call') = SerializedBy(call))
    => result' = result /\ files' = files

\* C8: file emission is a function of the serialized string and the keyword
\* arguments: same string and arguments give the same filename, the same file
\* contents and the same dict, and every hashed name on disk holds the content
\* with that hash.
C8_EmissionDeterministic ==
    [](C8_LastEmission /\ C8_NamesHoldTheHash) /\ [][C8_Step]_vars

\* An interchange object was emitted into the file a dict with the same
\* records is emitted to, next to a second file.
C8_Witness ==
    /\ call.op = "to_json"
    /\ InterchangeInput(call.data)
    /\ result.tag = "return"
    /\ NameFor(call.args, json_dumps(call.data.recs)) \in DOMAIN files
    /\ Cardinality(DOMAIN files) = 2
    /\ call.args.urlpath = "data"

---------------------------------------------------------------------------
(* C9 *)

\* What each step does to the flag and to the active entry.
C9_Step ==
    /\ call'.op = "consolidate_datasets.setter" =>
           /\ _global_settings'.consolidate_datasets = call'.value
           /\ active' = active
    /\ call'.op = "consolidate_datasets" =>
           /\ result' = Return(Bool(_global_settings.consolidate_datasets))
           /\ UNCHANGED <<_global_settings, active>>
    /\ call'.op = "enable" =>
           /\ active' = call'.name
           /\ _global_settings' = _global_settings
    /\ call'.op \in Emitters => UNCHANGED <<_global_settings, active>>

---------------------------------------------------------------------------
(* C10 *)

\* An object with one capability only, holding what that capability of d exposes.
GeoOnly(d) ==
    [isDataFrame |-> FALSE, isDict |-> FALSE, hasGeo |-> TRUE,
     hasDataframe |-> FALSE, typeName |-> ClassOf(FALSE, FALSE, TRUE, FALSE),
     hasValues |-> FALSE, recs |-> <<>>,
     geoType |-> d.geoType, nFeatures |-> d.nFeatures]

TabularOnly(d) ==
    [isDataFrame |-> TRUE, isDict |-> FALSE, hasGeo |-> FALSE,
     hasDataframe |-> FALSE, typeName |-> ClassOf(TRUE, FALSE, FALSE, FALSE),
     hasValues |-> FALSE, recs |-> d.recs, geoType |-> "-", nFeatures |-> 0]

MappingOnly(d) ==
    [isDataFrame |-> FALSE, isDict |-> TRUE, hasGeo |-> FALSE,
     hasDataframe |-> FALSE, typeName |-> ClassOf(FALSE, TRUE, FALSE, FALSE),
     hasValues |-> d.hasValues, recs |-> IF d.hasValues THEN d.recs ELSE <<>>,
     geoType |-> "-", nFeatures |-> 0]

InterchangeOnly(d) ==
    [isDataFrame |-> FALSE, isDict |-> FALSE, hasGeo |-> FALSE,
     hasDataframe |-> TRUE, typeName |-> ClassOf(FALSE, FALSE, FALSE, TRUE),
     hasValues |-> FALSE, recs |-> d.recs, geoType |-> "-", nFeatures |-> 0]

\* geo-interface > tabular > mapping > interchange
GeoFirst(d) ==
    IF d.hasGeo THEN GeoOnly(d)
    ELSE IF d.isDataFrame THEN TabularOnly(d)
    ELSE IF d.isDict THEN MappingOnly(d)
    ELSE InterchangeOnly(d)

\* tabular > mapping > interchange > geo-interface
GeoLast(d) ==
    IF d.isDataFrame THEN TabularOnly(d)
    ELSE IF d.isDict THEN MappingOnly(d)
    ELSE IF d.hasDataframe THEN InterchangeOnly(d)
    ELSE GeoOnly(d)

\* The outcome r for the object p, read as an outcome for d.
Rebind(r, p, d) == IF r = Return(Object(p)) THEN Return(Object(d)) ELSE r

\* The call came out as it does for the one-capability object p.
TreatedAs(p) ==
    CASE call.op = "limit_rows" ->
             result = Rebind(limit_rows(p, call.max_rows), p, call.data)
      [] call.op = "sample" ->
             result \in {Rebind(r, p, call.data) : r \in sample(p, call.n, call.frac)}
      [] call.op = "to_values" ->
             result = Rebind(to_values(p), p, call.data)
      [] call.op = "to_json" ->
             /\ result = to_json(p, call.args).result
             /\ to_json(p, call.args).wrote # None =>
                    /\ to_json(p, call.args).wrote[1] \in DOMAIN files
                    /\ files[to_json(p, call.args).wrote[1]] =
                           to_json(p, call.args).wrote[2]
      [] call.op = "to_csv" ->
             /\ result = to_csv(p, call.args).result
             /\ to_csv(p, call.args).wrote # None =>
                    /\ to_csv(p, call.args).wrote[1] \in DOMAIN files
                    /\ files[to_csv(p, call.args).wrote[1]] =
                           to_csv(p, call.args).wrote[2]

=============================================================================
